---- MODULE Spec2Model ----
(***************************************************************************)
(* A model of the proxy handler of src/API/proxy.js (with the meta-refresh *)
(* rule of src/pages/API/proxy.js): the URL codec, the URL resolver, the   *)
(* markup rewriter, the header filters and the request handler.            *)
(*                                                                         *)
(* Strings are sequences of characters.  A character is a one-character    *)
(* TLA+ string for printable ASCII (the grave accent, which a TLA+ string   *)
(* cannot hold, is named "U+0060"), or one of the named UTF-16 code units  *)
(* of ExtraChars.  Bytes are the integers 0..255.                          *)
(*                                                                         *)
(* Bind(e, LAMBDA v : body) is "let v be the value of e in body": it       *)
(* evaluates e once, where a LET definition is evaluated at every use.     *)
(***************************************************************************)
EXTENDS Integers, Sequences, FiniteSets, TLC

Bind(e, Op(_)) == CHOOSE r \in {Op(v) : v \in {e}} : TRUE

(***************************************************************************)
(* Characters and strings                                                  *)
(***************************************************************************)

\* The characters of a string literal, one per element.
Str(s) == [i \in 1..Len(s) |-> SubSeq(s, i, i)]

\* Printable ASCII, code units 32..126, in code order.
Ascii ==
  Str(" !") \o <<"\"">> \o Str("#$%&'()*+,-./0123456789:;<=>?@")
  \o Str("ABCDEFGHIJKLMNOPQRSTUVWXYZ[") \o <<"\\">> \o Str("]^_") \o <<"U+0060">>
  \o Str("abcdefghijklmnopqrstuvwxyz{|}~")

\* Code units outside printable ASCII that the model's inputs and outputs use:
\* e-acute, the replacement character, and the surrogate pair of U+1F600.
ExtraChars ==
  [c \in {"U+00E9", "U+FFFD", "U+D83D", "U+DE00"} |->
     CASE c = "U+00E9" -> 233
       [] c = "U+FFFD" -> 65533
       [] c = "U+D83D" -> 55357
       [] c = "U+DE00" -> 56832]

\* The UTF-16 code unit of a character.
OrdTab ==
  [c \in {Ascii[i] : i \in 1..Len(Ascii)} \cup DOMAIN ExtraChars |->
     IF c \in DOMAIN ExtraChars THEN ExtraChars[c]
     ELSE 31 + (CHOOSE i \in 1..Len(Ascii) : Ascii[i] = c)]

Ord(c) == OrdTab[c]

\* The character of a code unit.
Chr(n) ==
  IF n >= 32 /\ n <= 126 THEN Ascii[n - 31]
  ELSE CHOOSE c \in DOMAIN ExtraChars : ExtraChars[c] = n

IsUpper(c) == Ord(c) >= 65 /\ Ord(c) <= 90
IsAlpha(c) == IsUpper(c) \/ (Ord(c) >= 97 /\ Ord(c) <= 122)
IsDigit(c) == Ord(c) >= 48 /\ Ord(c) <= 57

LowerChar(c) == IF IsUpper(c) THEN Chr(Ord(c) + 32) ELSE c

\* String.prototype.toLowerCase, on the model's characters.
ToLowerCase(str) == Bind(str, LAMBDA s : [i \in 1..Len(s) |-> LowerChar(s[i])])

\* String.prototype.startsWith.
StartsWith(str, p) ==
  Bind(str, LAMBDA s : Len(s) >= Len(p) /\ SubSeq(s, 1, Len(p)) = p)

\* The rest of s from position i on.
From(s, i) == SubSeq(s, i, Len(s))

\* The least and the greatest element of a non-empty set of integers.
Min(S) == CHOOSE m \in S : \A k \in S : m <= k
Max(S) == CHOOSE m \in S : \A k \in S : m >= k

\* The concatenation of the sequences f[lo], ..., f[hi].
RECURSIVE FlatRange(_, _, _)
FlatRange(f, lo, hi) ==
  IF lo > hi THEN <<>>
  ELSE IF lo = hi THEN f[lo]
  ELSE FlatRange(f, lo, (lo + hi) \div 2) \o FlatRange(f, ((lo + hi) \div 2) + 1, hi)

\* The concatenation of a sequence of sequences.
Flatten(seqs) == Bind(seqs, LAMBDA f : FlatRange(f, 1, Len(f)))

\* The first position >= i of s holding a character of set cs, or Len(s)+1.
FindChar(str, cs, i) ==
  Bind(str, LAMBDA s :
  Bind({k \in i..Len(s) : s[k] \in cs}, LAMBDA hits :
    IF hits = {} THEN Len(s) + 1 ELSE Min(hits)))

\* The first position >= i at which p occurs in s, or 0
\* (String.prototype.indexOf, counted from 1).
IndexOf(str, pat, i) ==
  Bind(str, LAMBDA s :
  Bind(pat, LAMBDA p :
  Bind({k \in i..(Len(s) - Len(p) + 1) : SubSeq(s, k, k + Len(p) - 1) = p},
       LAMBDA hits : IF hits = {} THEN 0 ELSE Min(hits))))

\* String.prototype.includes.
Includes(s, p) == IndexOf(s, p, 1) > 0

\* The positions at which sep (non-empty) occurs in s, left to right without
\* overlap, from position i on.
RECURSIVE SepPositions(_, _, _)
SepPositions(s, sep, i) ==
  Bind(IndexOf(s, sep, i), LAMBDA k :
    IF k = 0 THEN <<>> ELSE <<k>> \o SepPositions(s, sep, k + Len(sep)))

\* String.prototype.split on a separator string (non-empty).
Split(str, sep) ==
  Bind(str, LAMBDA s :
  Bind(SepPositions(s, sep, 1), LAMBDA ks :
    [j \in 1..(Len(ks) + 1) |->
       SubSeq(s, IF j = 1 THEN 1 ELSE ks[j - 1] + Len(sep),
                 IF j = Len(ks) + 1 THEN Len(s) ELSE ks[j] - 1)]))

\* Array.prototype.join.
Join(parts, sep) ==
  Bind(parts, LAMBDA ps :
    Flatten([i \in 1..Len(ps) |-> IF i = 1 THEN ps[i] ELSE sep \o ps[i]]))

\* String.prototype.trim (the only white space of the model is the space).
Trim(str) ==
  Bind(str, LAMBDA s :
  Bind({k \in 1..Len(s) : s[k] # " "}, LAMBDA ink :
    IF ink = {} THEN <<>> ELSE SubSeq(s, Min(ink), Max(ink))))

(***************************************************************************)
(* URL codec: b64Encode / b64Decode                                        *)
(***************************************************************************)

IsHighSurrogate(n) == n >= 55296 /\ n <= 56319
IsLowSurrogate(n) == n >= 56320 /\ n <= 57343

\* The UTF-8 bytes of one code point.
Utf8OfCodePoint(cp) ==
  IF cp < 128 THEN <<cp>>
  ELSE IF cp < 2048 THEN <<192 + (cp \div 64), 128 + (cp % 64)>>
  ELSE IF cp < 65536
    THEN <<224 + (cp \div 4096), 128 + ((cp \div 64) % 64), 128 + (cp % 64)>>
  ELSE <<240 + (cp \div 262144), 128 + ((cp \div 4096) % 64),
         128 + ((cp \div 64) % 64), 128 + (cp % 64)>>

\* The code point the code unit at position i of s stands for: a surrogate
\* pair is one code point (given at its first unit, -1 at its second), a lone
\* surrogate U+FFFD.
CodePointAt(s, i) ==
  IF IsHighSurrogate(Ord(s[i]))
    THEN IF i < Len(s) /\ IsLowSurrogate(Ord(s[i + 1]))
           THEN 65536 + (Ord(s[i]) - 55296) * 1024 + (Ord(s[i + 1]) - 56320)
           ELSE 65533
  ELSE IF IsLowSurrogate(Ord(s[i]))
    THEN IF i > 1 /\ IsHighSurrogate(Ord(s[i - 1])) THEN -1 ELSE 65533
  ELSE Ord(s[i])

\* The UTF-8 bytes the code unit at position i of s contributes.
Utf8At(s, i) ==
  Bind(CodePointAt(s, i), LAMBDA cp : IF cp < 0 THEN <<>> ELSE Utf8OfCodePoint(cp))

\* Buffer.from(str, "utf8").
Utf8Encode(str) ==
  Bind(str, LAMBDA s : Flatten([i \in 1..Len(s) |-> Utf8At(s, i)]))

\* The code units of one code point.
Utf16OfCodePoint(cp) ==
  IF cp < 65536 THEN <<Chr(cp)>>
  ELSE <<Chr(55296 + ((cp - 65536) \div 1024)), Chr(56320 + ((cp - 65536) % 1024))>>

\* The number of bytes the lead byte b1 announces (0: not a lead byte).
Utf8Need(b1) ==
  IF b1 >= 194 /\ b1 <= 223 THEN 2
  ELSE IF b1 >= 224 /\ b1 <= 239 THEN 3
  ELSE IF b1 >= 240 /\ b1 <= 244 THEN 4
  ELSE 0

\* Whether byte c may stand at offset k (1, 2 or 3) after the lead byte b1.
Utf8ContOk(b1, k, c) ==
  IF k > 1 THEN c >= 128 /\ c <= 191
  ELSE IF b1 = 224 THEN c >= 160 /\ c <= 191
  ELSE IF b1 = 237 THEN c >= 128 /\ c <= 159
  ELSE IF b1 = 240 THEN c >= 144 /\ c <= 191
  ELSE IF b1 = 244 THEN c >= 128 /\ c <= 143
  ELSE c >= 128 /\ c <= 191

\* Whether the bytes b[j+1..i] continue the sequence the lead byte b[j] starts.
Utf8Covers(b, j, i) ==
  /\ j >= 1
  /\ Utf8Need(b[j]) > i - j
  /\ \A k \in (j + 1)..i : Utf8ContOk(b[j], k - j, b[k])

\* The code point of the well-formed n-byte sequence at position i of b.
Utf8CodePointAt(b, i, n) ==
  IF n = 2 THEN (b[i] - 192) * 64 + (b[i + 1] - 128)
  ELSE IF n = 3
    THEN (b[i] - 224) * 4096 + (b[i + 1] - 128) * 64 + (b[i + 2] - 128)
  ELSE (b[i] - 240) * 262144 + (b[i + 1] - 128) * 4096
       + (b[i + 2] - 128) * 64 + (b[i + 3] - 128)

\* The code units the byte at position i of b contributes: a well-formed
\* sequence decodes to its code point (given at its lead byte), a truncated
\* one to a single U+FFFD, any other byte to U+FFFD.
Utf16At(b, i) ==
  IF b[i] < 128 THEN <<Chr(b[i])>>
  ELSE IF Utf8Need(b[i]) > 0
    THEN IF /\ i + Utf8Need(b[i]) - 1 <= Len(b)
            /\ Utf8Covers(b, i, i + Utf8Need(b[i]) - 1)
           THEN Utf16OfCodePoint(Utf8CodePointAt(b, i, Utf8Need(b[i])))
           ELSE <<"U+FFFD">>
  ELSE IF \E j \in {i - 1, i - 2, i - 3} : Utf8Covers(b, j, i) THEN <<>>
  ELSE <<"U+FFFD">>

\* buf.toString("utf8").
Utf8Decode(bytes) ==
  Bind(bytes, LAMBDA b : Flatten([i \in 1..Len(b) |-> Utf16At(b, i)]))

\* The base64url alphabet, by 6-bit value (position - 1).
B64UrlAlphabet ==
  Str("ABCDEFGHIJKLMNOPQRSTUVWXYZabcdefghijklmnopqrstuvwxyz0123456789-_")

\* The byte at position i of b, 0 past its end.
ByteAt(b, i) == IF i <= Len(b) THEN b[i] ELSE 0

\* The characters of the g-th group of three bytes of b.
Base64Group(b, g) ==
  SubSeq(<<B64UrlAlphabet[(b[3 * g - 2] \div 4) + 1],
           B64UrlAlphabet[(b[3 * g - 2] % 4) * 16 + (ByteAt(b, 3 * g - 1) \div 16) + 1],
           B64UrlAlphabet[(ByteAt(b, 3 * g - 1) % 16) * 4 + (ByteAt(b, 3 * g) \div 64) + 1],
           B64UrlAlphabet[(ByteAt(b, 3 * g) % 64) + 1]>>,
         1, IF 3 * g - 2 = Len(b) THEN 2 ELSE IF 3 * g - 1 = Len(b) THEN 3 ELSE 4)

\* buf.toString("base64url"): three bytes to four characters, no padding.
Base64UrlOfBytes(bytes) ==
  Bind(bytes, LAMBDA b :
    Flatten([g \in 1..((Len(b) + 2) \div 3) |-> Base64Group(b, g)]))

\* The 6-bit value of each character the decoder reads: it knows the base64
\* and the base64url alphabet.
Unbase64Tab ==
  [c \in {B64UrlAlphabet[i] : i \in 1..64} \cup {"+", "/"} |->
     IF c = "+" THEN 62
     ELSE IF c = "/" THEN 63
     ELSE (CHOOSE i \in 1..64 : B64UrlAlphabet[i] = c) - 1]

IsBase64Char(c) == c \in DOMAIN Unbase64Tab

\* The 6-bit values the decoder reads: it stops at "=" and skips every other
\* character outside the alphabets.
SextetsOf(str) ==
  Bind(str, LAMBDA s :
  Bind(SelectSeq(SubSeq(s, 1, FindChar(s, {"="}, 1) - 1), IsBase64Char), LAMBDA legal :
    [i \in 1..Len(legal) |-> Unbase64Tab[legal[i]]]))

\* The 6-bit value at position i of v, 0 past its end.
SextetAt(v, i) == IF i <= Len(v) THEN v[i] ELSE 0

\* The bytes of the g-th group of four 6-bit values of v: a trailing group of
\* two or three values gives one or two bytes, a trailing single value none.
BytesGroup(v, g) ==
  SubSeq(<<v[4 * g - 3] * 4 + (SextetAt(v, 4 * g - 2) \div 16),
           (SextetAt(v, 4 * g - 2) % 16) * 16 + (SextetAt(v, 4 * g - 1) \div 4),
           (SextetAt(v, 4 * g - 1) % 4) * 64 + SextetAt(v, 4 * g)>>,
         1, IF 4 * g <= Len(v) THEN 3 ELSE Len(v) - (4 * g - 3))

BytesOfSextets(sextets) ==
  Bind(sextets, LAMBDA v :
    Flatten([g \in 1..((Len(v) + 3) \div 4) |-> BytesGroup(v, g)]))

\* Buffer.from(b64, "base64url").
BytesOfBase64Url(s) == BytesOfSextets(SextetsOf(s))

\* b64Encode taking the string one code unit at a time: the halves of a
\* surrogate pair are encoded apart, each as U+FFFD.
b64EncodeByCodeUnit(str) ==
  Base64UrlOfBytes(Flatten([i \in 1..Len(str) |->
    Utf8OfCodePoint(IF IsHighSurrogate(Ord(str[i])) \/ IsLowSurrogate(Ord(str[i]))
                      THEN 65533 ELSE Ord(str[i]))]))

b64Encode(str) == Base64UrlOfBytes(Utf8Encode(str))

b64Decode(b64) == Utf8Decode(BytesOfBase64Url(b64))

(***************************************************************************)
(* URL resolver: new URL(input) and new URL(input, base), toString()       *)
(*                                                                         *)
(* The URL record of the platform's parser (WHATWG URL), for the inputs    *)
(* the model draws: hosts are ASCII names that do not end in a number (no  *)
(* IPv4 or IDNA conversion) and carry no percent escapes.  An absent       *)
(* component is the empty sequence, a present one a one-element sequence.  *)
(***************************************************************************)

None == <<>>
Some(v) == <<v>>

Failure == [ok |-> FALSE]

SpecialSchemes == {Str("http"), Str("https"), Str("ftp"), Str("ws"), Str("wss"), Str("file")}

IsSpecial(scheme) == scheme \in SpecialSchemes

DefaultPort(scheme) ==
  IF scheme = Str("http") \/ scheme = Str("ws") THEN Str("80")
  ELSE IF scheme = Str("https") \/ scheme = Str("wss") THEN Str("443")
  ELSE IF scheme = Str("ftp") THEN Str("21")
  ELSE <<>>

\* "%XX" for every byte of bytes.
PercentEncodeBytes(bytes) ==
  Bind(bytes, LAMBDA b :
    Flatten([i \in 1..Len(b) |->
      <<"%", Str("0123456789ABCDEF")[(b[i] \div 16) + 1],
        Str("0123456789ABCDEF")[(b[i] % 16) + 1]>>]))

\* The percent-encode sets of the URL standard, on the model's characters.
FragmentEncodeSet == {" ", "\"", "<", ">", "U+0060"}
QueryEncodeSet == {" ", "\"", "#", "<", ">"}
SpecialQueryEncodeSet == QueryEncodeSet \cup {"'"}
PathEncodeSet == QueryEncodeSet \cup {"?", "U+0060", "{", "}"}

\* s with every character that is in the set, or is not ASCII, percent-encoded
\* byte by byte in UTF-8.
PercentEncode(str, set) ==
  Bind(str, LAMBDA s :
    Flatten([i \in 1..Len(s) |->
      IF Ord(s[i]) > 126 \/ s[i] \in set
        THEN PercentEncodeBytes(Utf8At(s, i))
        ELSE <<s[i]>>]))

SchemeChars(c) == IsAlpha(c) \/ IsDigit(c) \/ c \in {"+", "-", "."}

\* The position of the ":" that ends a scheme at the start of s, or 0.
SchemeEnd(s) ==
  IF Len(s) = 0 \/ ~IsAlpha(s[1]) THEN 0
  ELSE Bind({k \in 1..Len(s) : ~SchemeChars(s[k])}, LAMBDA stops :
         IF stops # {} /\ s[Min(stops)] = ":" THEN Min(stops) ELSE 0)

IsSingleDot(seg) == ToLowerCase(seg) \in {Str("."), Str("%2e")}

IsDoubleDot(seg) ==
  ToLowerCase(seg) \in {Str(".."), Str(".%2e"), Str("%2e."), Str("%2e%2e")}

\* "shorten a url's path".
Shorten(path) == IF Len(path) = 0 THEN path ELSE SubSeq(path, 1, Len(path) - 1)

\* One step of the path state: the segment seg, the last one or one ended by
\* a slash, appended to path.
PathStep(path, seg, last) ==
  IF IsDoubleDot(seg)
    THEN IF last THEN Append(Shorten(path), <<>>) ELSE Shorten(path)
  ELSE IF IsSingleDot(seg)
    THEN IF last THEN Append(path, <<>>) ELSE path
  ELSE Append(path, PercentEncode(seg, PathEncodeSet))

\* The path state: the segments segs[i..] appended to path.
RECURSIVE PathState(_, _, _)
PathState(path, segs, i) ==
  IF i > Len(segs) THEN path
  ELSE Bind(PathStep(path, segs[i], i = Len(segs)), LAMBDA next :
         PathState(next, segs, i + 1))

\* Backslashes read as slashes in a special URL.
SlashesOf(s, special) ==
  IF special THEN [i \in 1..Len(s) |-> IF s[i] = "\\" THEN "/" ELSE s[i]] ELSE s

\* The query and fragment of the text t, which starts at the path.
QueryOf(t, special) ==
  Bind(FindChar(t, {"#"}, 1), LAMBDA h :
  Bind(FindChar(t, {"?"}, 1), LAMBDA q :
    IF q < h
      THEN Some(PercentEncode(SubSeq(t, q + 1, h - 1),
                              IF special THEN SpecialQueryEncodeSet ELSE QueryEncodeSet))
      ELSE None))

FragmentOf(t) ==
  Bind(FindChar(t, {"#"}, 1), LAMBDA h :
    IF h <= Len(t) THEN Some(PercentEncode(From(t, h + 1), FragmentEncodeSet)) ELSE None)

\* The path text of t: up to the first "?" or "#".
PathTextOf(t) == SubSeq(t, 1, FindChar(t, {"?", "#"}, 1) - 1)

\* The path of t appended to start: the path start state and the path state.
PathOf(start, t, special) ==
  Bind(SlashesOf(PathTextOf(t), special), LAMBDA text :
    IF Len(text) = 0 /\ ~special THEN start
    ELSE Bind(Split(IF Len(text) > 0 /\ text[1] = "/" THEN Tail(text) ELSE text,
                    Str("/")),
              LAMBDA segs : PathState(start, segs, 1)))

ForbiddenHostChars == {" ", "#", "/", ":", "<", ">", "?", "@", "[", "\\", "]", "^", "|"}

\* The decimal value of a string of at most five digits.
RECURSIVE DecimalOf(_)
DecimalOf(d) ==
  IF Len(d) = 0 THEN 0
  ELSE 10 * DecimalOf(SubSeq(d, 1, Len(d) - 1)) + (Ord(d[Len(d)]) - 48)

\* s without its leading zeros (one digit is kept).
StripZeros(s) ==
  Bind({k \in 1..Len(s) : s[k] # "0"}, LAMBDA nz :
    IF nz = {} THEN Str("0") ELSE From(s, Min(nz)))

\* The credentials of the authority text auth: what precedes its last "@".
CredOf(auth) ==
  Bind({k \in 1..Len(auth) : auth[k] = "@"}, LAMBDA ats :
    IF ats = {} THEN <<>> ELSE SubSeq(auth, 1, Max(ats) - 1))

\* The host and port of the authority text auth: what follows its last "@".
HostPortOf(auth) ==
  Bind({k \in 1..Len(auth) : auth[k] = "@"}, LAMBDA ats :
    IF ats = {} THEN auth ELSE From(auth, Max(ats) + 1))

IsBracketed(hp) == Len(hp) > 0 /\ hp[1] = "["

\* The position of the ":" that ends the host in hp (outside brackets), or
\* Len(hp)+1.
PortColon(hp) ==
  FindChar(hp, {":"}, IF IsBracketed(hp) THEN FindChar(hp, {"]"}, 1) ELSE 1)

\* The host parser accepts rawhost: a bracketed host is closed by its last
\* character, a name holds no forbidden character, and only a file URL or a
\* URL that is not special may have an empty host.
HostOk(scheme, rawhost) ==
  IF IsBracketed(rawhost) THEN rawhost[Len(rawhost)] = "]" /\ Len(rawhost) > 2
  ELSE /\ \A k \in 1..Len(rawhost) :
            rawhost[k] \notin (IF IsSpecial(scheme) THEN ForbiddenHostChars \cup {"%"}
                               ELSE ForbiddenHostChars)
       /\ (IsSpecial(scheme) /\ scheme # Str("file") => Len(rawhost) > 0)

\* The port state accepts rawport: digits of a value up to 65535.
PortOk(rawport) ==
  /\ \A k \in 1..Len(rawport) : IsDigit(rawport[k])
  /\ Len(rawport) > 0 =>
       Bind(StripZeros(rawport), LAMBDA p : Len(p) <= 5 /\ DecimalOf(p) <= 65535)

\* The port of the URL record: absent when it is the scheme's default.
PortOf(scheme, rawport) ==
  IF Len(rawport) = 0 THEN <<>>
  ELSE Bind(StripZeros(rawport), LAMBDA p : IF p = DefaultPort(scheme) THEN <<>> ELSE p)

\* The authority state, host state and port state on the text, which starts
\* after the slashes: credentials, host and port, and the tail that starts at
\* the path.
ParseAuthority(scheme, text) ==
  Bind(text, LAMBDA t :
  Bind(FindChar(t, IF IsSpecial(scheme) THEN {"/", "\\", "?", "#"} ELSE {"/", "?", "#"}, 1),
       LAMBDA e :
  Bind(SubSeq(t, 1, e - 1), LAMBDA auth :
  Bind(HostPortOf(auth), LAMBDA hp :
  Bind(PortColon(hp), LAMBDA colon :
    [ok |-> HostOk(scheme, SubSeq(hp, 1, colon - 1)) /\ PortOk(From(hp, colon + 1)),
     cred |-> CredOf(auth),
     host |-> Some(IF IsSpecial(scheme) THEN ToLowerCase(SubSeq(hp, 1, colon - 1))
                   ELSE SubSeq(hp, 1, colon - 1)),
     port |-> PortOf(scheme, From(hp, colon + 1)),
     tail |-> From(t, e)])))))

\* t without its leading slashes (and backslashes).
SkipSlashes(t) ==
  Bind({k \in 1..Len(t) : t[k] \notin {"/", "\\"}}, LAMBDA rest :
    IF rest = {} THEN <<>> ELSE From(t, Min(rest)))

\* Whether t starts with two slashes (backslashes count when special).
TwoSlashes(t, special) ==
  /\ Len(t) >= 2
  /\ t[1] \in (IF special THEN {"/", "\\"} ELSE {"/"})
  /\ t[2] \in (IF special THEN {"/", "\\"} ELSE {"/"})

\* What the parser reads next, and in which text: an "authority", a "path"
\* from the root, a "relpath" against the base's path, a "query" or a
\* "fragment" on the base, the base as it is ("keep"), an "opaque" path, a
\* path without authority of a file URL ("filepath") or of a URL that is not
\* special ("rootpath"), or nothing ("fail").
Plan(mode, text) == [mode |-> mode, text |-> text]

\* The relative state and relative slash state: t has no scheme of its own.
RelativePlan(t, special) ==
  IF Len(t) = 0 THEN Plan("keep", t)
  ELSE IF TwoSlashes(t, special)
    THEN Plan("authority", IF special THEN SkipSlashes(t) ELSE From(t, 3))
  ELSE IF t[1] = "/" \/ (special /\ t[1] = "\\") THEN Plan("path", t)
  ELSE IF t[1] = "?" THEN Plan("query", t)
  ELSE IF t[1] = "#" THEN Plan("fragment", t)
  ELSE Plan("relpath", t)

\* The no scheme state: s has no scheme; base is a URL record or Failure.
NoSchemePlan(s, base) ==
  IF ~base.ok THEN Plan("fail", s)
  ELSE IF base.opaque
    THEN IF Len(s) > 0 /\ s[1] = "#" THEN Plan("fragment", s) ELSE Plan("fail", s)
  ELSE RelativePlan(s, IsSpecial(base.scheme))

\* The scheme state and what follows it: rest follows the ":" of the scheme.
SchemePlan(scheme, rest, base) ==
  IF IsSpecial(scheme)
    THEN IF /\ base.ok /\ base.scheme = scheme /\ scheme # Str("file")
            /\ ~TwoSlashes(rest, TRUE)
           THEN RelativePlan(rest, TRUE)
         ELSE IF scheme = Str("file")
           THEN IF TwoSlashes(rest, TRUE) THEN Plan("authority", From(rest, 3))
                ELSE Plan("filepath", rest)
         ELSE Plan("authority", SkipSlashes(rest))
  ELSE IF TwoSlashes(rest, FALSE) THEN Plan("authority", From(rest, 3))
  ELSE IF Len(rest) >= 1 /\ rest[1] = "/" THEN Plan("rootpath", rest)
  ELSE Plan("opaque", rest)

\* Credentials, host and port of the URL the plan leads to, and the tail
\* that starts at the path.
AuthorityOf(plan, scheme, base) ==
  IF plan.mode = "fail" THEN Failure
  ELSE IF plan.mode = "authority" THEN ParseAuthority(scheme, plan.text)
  ELSE IF plan.mode = "filepath"
    THEN [ok |-> TRUE, cred |-> <<>>, host |-> Some(<<>>), port |-> <<>>, tail |-> plan.text]
  ELSE IF plan.mode \in {"rootpath", "opaque"}
    THEN [ok |-> TRUE, cred |-> <<>>, host |-> None, port |-> <<>>, tail |-> plan.text]
  ELSE [ok |-> TRUE, cred |-> base.cred, host |-> base.host, port |-> base.port,
        tail |-> plan.text]

\* The URL record the plan leads to.
UrlRecord(mode, scheme, auth, base) ==
  IF ~auth.ok THEN Failure
  ELSE [ok |-> TRUE, scheme |-> scheme, cred |-> auth.cred, host |-> auth.host,
        port |-> auth.port,
        opaque |-> mode = "opaque" \/ (mode = "fragment" /\ base.opaque),
        path |-> IF mode \in {"keep", "query", "fragment"} THEN base.path
                 ELSE IF mode = "opaque"
                   THEN <<PercentEncode(PathTextOf(auth.tail), {})>>
                 ELSE PathOf(IF mode = "relpath" THEN Shorten(base.path) ELSE <<>>,
                             auth.tail, IsSpecial(scheme)),
        query |-> IF mode \in {"keep", "fragment"} THEN base.query
                  ELSE QueryOf(auth.tail, IsSpecial(scheme)),
        fragment |-> IF mode = "keep" THEN None ELSE FragmentOf(auth.tail)]

\* The basic URL parser on the trimmed input s, whose scheme ends at k (0: it
\* has none), against base (a URL record, or Failure for "no base").
ParseWith(s, k, base) ==
  Bind(IF k = 0 THEN (IF base.ok THEN base.scheme ELSE <<>>)
       ELSE ToLowerCase(SubSeq(s, 1, k - 1)),
       LAMBDA scheme :
  Bind(IF k = 0 THEN NoSchemePlan(s, base) ELSE SchemePlan(scheme, From(s, k + 1), base),
       LAMBDA plan :
  Bind(AuthorityOf(plan, scheme, base), LAMBDA auth :
    UrlRecord(plan.mode, scheme, auth, base))))

\* new URL(input) (base is None) and new URL(input, base) (base is Some
\* string, parsed first): the URL record, or Failure where the constructor
\* throws.
RECURSIVE ParseUrl(_, _)
ParseUrl(input, base) ==
  Bind(IF base = None THEN Failure ELSE ParseUrl(base[1], None), LAMBDA b :
    IF base # None /\ ~b.ok THEN Failure
    ELSE Bind(Trim(input), LAMBDA s :
         Bind(SchemeEnd(s), LAMBDA k : ParseWith(s, k, b))))

\* The text of the authority of u and of what keeps a path that starts with
\* an empty segment apart from one.
SerializeAuthority(u) ==
  IF Len(u.host) = 1
    THEN Str("//") \o (IF Len(u.cred) > 0 THEN u.cred \o Str("@") ELSE <<>>)
         \o u.host[1]
         \o (IF Len(u.port) > 0 THEN Str(":") \o u.port ELSE <<>>)
  ELSE IF ~u.opaque /\ Len(u.path) > 1 /\ u.path[1] = <<>> THEN Str("/.")
  ELSE <<>>

\* The URL serializer: url.toString() / url.href.
Serialize(url) ==
  Bind(url, LAMBDA u :
    u.scheme \o Str(":")
    \o SerializeAuthority(u)
    \o (IF u.opaque THEN u.path[1]
        ELSE Flatten([i \in 1..Len(u.path) |-> Str("/") \o u.path[i]]))
    \o (IF Len(u.query) = 1 THEN Str("?") \o u.query[1] ELSE <<>>)
    \o (IF Len(u.fragment) = 1 THEN Str("#") \o u.fragment[1] ELSE <<>>))

\* new URL(s).
NewUrl(s) == ParseUrl(s, None)

\* new URL(ref, base).
NewUrlAgainst(ref, base) == ParseUrl(ref, Some(base))

\* u.protocol.
Protocol(u) == u.scheme \o Str(":")

\* isHttpUrl without the test of the protocol: any URL that parses.
isHttpUrlAnyProtocol(s) == NewUrl(s).ok

isHttpUrl(s) ==
  Bind(NewUrl(s), LAMBDA u :
    IF u.ok THEN Protocol(u) = Str("http:") \/ Protocol(u) = Str("https:")
    ELSE FALSE)

(***************************************************************************)
(* Markup rewriter (the text/html branch of the handler)                   *)
(*                                                                         *)
(* A document is the tree cheerio.load builds, as the element lists of its *)
(* head and its body.  An element has a tag, attributes (a function from   *)
(* the names present to their values) and, for <style> and <script>, its   *)
(* text.  Every rewrite rule of the handler changes one element at a time, *)
(* so the rules are applied element by element, in the order of the source.*)
(***************************************************************************)

\* A collection of attributes or headers without any.
EmptyMap == [k \in {} |-> <<>>]

\* $(el).attr(name) is truthy.
HasAttr(el, name) == name \in DOMAIN el.attrs /\ el.attrs[name] # <<>>

\* $(el).attr(name) || "".
AttrOr(el, name) == IF name \in DOMAIN el.attrs THEN el.attrs[name] ELSE <<>>

\* $(el).attr(name, value).
SetAttr(el, name, value) == [el EXCEPT !.attrs = (name :> value) @@ el.attrs]

\* The prefix of every proxy-addressed URL.
ProxyPrefix == Str("/p/")

\* Helper to proxify a URL string against the target.
proxify(rawUrl, targetUrl) ==
  IF Len(rawUrl) = 0 THEN rawUrl
  ELSE IF \/ StartsWith(rawUrl, Str("javascript:"))
          \/ StartsWith(rawUrl, Str("data:"))
          \/ StartsWith(rawUrl, Str("mailto:"))
    THEN rawUrl
  ELSE Bind(NewUrlAgainst(rawUrl, targetUrl), LAMBDA u :
         IF u.ok THEN ProxyPrefix \o b64Encode(Serialize(u)) ELSE rawUrl)

\* $("a").each: href through proxify, rel gains noreferrer noopener.
RewriteAnchor(el, targetUrl) ==
  IF el.tag = "a" /\ HasAttr(el, "href")
    THEN SetAttr(SetAttr(el, "href", proxify(el.attrs["href"], targetUrl)),
                 "rel", Trim(AttrOr(el, "rel") \o Str(" noreferrer noopener")))
    ELSE el

resourceSelectors ==
  <<"img", "script", "iframe", "video", "audio", "source", "embed",
    "link[rel=stylesheet]">>

\* Whether the element matches a selector of resourceSelectors.
Matches(el, sel) ==
  IF sel = "link[rel=stylesheet]"
    THEN /\ el.tag = "link"
         /\ "rel" \in DOMAIN el.attrs
         /\ el.attrs["rel"] = Str("stylesheet")
    ELSE el.tag = sel

\* The body of resourceSelectors' $(sel).each for one selector.
RewriteResource(el, sel, targetUrl) ==
  IF ~Matches(el, sel) THEN el
  ELSE IF HasAttr(el, "src")
    THEN SetAttr(el, "src", proxify(el.attrs["src"], targetUrl))
  ELSE IF HasAttr(el, "href")
    THEN SetAttr(el, "href", proxify(el.attrs["href"], targetUrl))
  ELSE el

\* resourceSelectors.forEach, from selector i on.
RECURSIVE RewriteResources(_, _, _)
RewriteResources(el, i, targetUrl) ==
  IF i > Len(resourceSelectors) THEN el
  ELSE Bind(RewriteResource(el, resourceSelectors[i], targetUrl), LAMBDA next :
         RewriteResources(next, i + 1, targetUrl))

\* $("link").each.
RewriteLink(el, targetUrl) ==
  IF el.tag = "link" /\ HasAttr(el, "href")
    THEN SetAttr(el, "href", proxify(el.attrs["href"], targetUrl))
    ELSE el

\* $("form").each: an empty or absent action posts to the page itself.
RewriteForm(el, targetUrl) ==
  IF el.tag = "form"
    THEN SetAttr(el, "action",
                 proxify(IF AttrOr(el, "action") # <<>> THEN AttrOr(el, "action")
                         ELSE targetUrl,
                         targetUrl))
    ELSE el

IsNonEmpty(s) == s # <<>>

\* entry.split(/\s+/, 2) for a trimmed entry: at most its first two words.
SplitWords2(entry) ==
  Bind(SelectSeq(Split(entry, Str(" ")), IsNonEmpty), LAMBDA words :
    IF Len(words) = 0 THEN <<entry>>
    ELSE IF Len(words) = 1 THEN words
    ELSE SubSeq(words, 1, 2))

\* One srcset entry: its URL through proxify, its descriptor kept.
RewriteSrcsetEntry(entry, targetUrl) ==
  Bind(SplitWords2(entry), LAMBDA ud :
    proxify(ud[1], targetUrl)
    \o (IF Len(ud) = 2 /\ ud[2] # <<>> THEN Str(" ") \o ud[2] ELSE <<>>))

\* raw.split(",").map(trim).map(rewrite).join(", ").
RewriteSrcsetText(text, targetUrl) ==
  Bind(Split(text, Str(",")), LAMBDA raw :
    Join([i \in 1..Len(raw) |-> RewriteSrcsetEntry(Trim(raw[i]), targetUrl)],
         Str(", ")))

\* $("[srcset]").each.
RewriteSrcset(el, targetUrl) ==
  IF HasAttr(el, "srcset")
    THEN SetAttr(el, "srcset", RewriteSrcsetText(el.attrs["srcset"], targetUrl))
    ELSE el

\* The match of /url\((['"]?)(.*?)\1\)/ at the "url(" at position k of s:
\* <<start, quote, url, end>>, or <<>> when there is none.  The quote is tried
\* first; when no closing quote-and-parenthesis follows, the quote is part of
\* the URL.
CssUrlMatchAt(s, k) ==
  Bind(IF k + 4 <= Len(s) /\ s[k + 4] \in {"'", "\""}
         THEN {e \in (k + 5)..(Len(s) - 1) : s[e] = s[k + 4] /\ s[e + 1] = ")"}
         ELSE {},
       LAMBDA qends :
  Bind({e \in (k + 4)..Len(s) : s[e] = ")"}, LAMBDA pends :
    IF qends # {}
      THEN <<k, <<s[k + 4]>>, SubSeq(s, k + 5, Min(qends) - 1), Min(qends) + 1>>
    ELSE IF pends # {}
      THEN <<k, <<>>, SubSeq(s, k + 4, Min(pends) - 1), Min(pends)>>
    ELSE <<>>))

\* The leftmost match in s.
CssUrlMatch(s) ==
  Bind(IndexOf(s, Str("url("), 1), LAMBDA k :
    IF k = 0 THEN <<>> ELSE CssUrlMatchAt(s, k))

\* The replacement callback of the url(...) rewrite.
CssUrlReplacement(q, url, targetUrl) ==
  IF StartsWith(url, Str("data:")) \/ StartsWith(url, Str("javascript:"))
    THEN Str("url(") \o q \o url \o q \o Str(")")
    ELSE Str("url(") \o q \o proxify(url, targetUrl) \o q \o Str(")")

\* css.replace(/url\((['"]?)(.*?)\1\)/g, ...).
RECURSIVE ReplaceCssUrls(_, _)
ReplaceCssUrls(css, targetUrl) ==
  Bind(css, LAMBDA s :
  Bind(CssUrlMatch(s), LAMBDA m :
    IF m = <<>> THEN s
    ELSE SubSeq(s, 1, m[1] - 1)
         \o CssUrlReplacement(m[2], m[3], targetUrl)
         \o ReplaceCssUrls(From(s, m[4] + 1), targetUrl)))

\* $("*[style]").each.
RewriteStyleAttr(el, targetUrl) ==
  IF HasAttr(el, "style")
    THEN SetAttr(el, "style", ReplaceCssUrls(el.attrs["style"], targetUrl))
    ELSE el

\* $("style").each.
RewriteStyleBlock(el, targetUrl) ==
  IF el.tag = "style"
    THEN [el EXCEPT !.text = ReplaceCssUrls(el.text, targetUrl)]
    ELSE el

\* The injected client-side guard script, as the element it parses to.
clientScript ==
  [tag |-> "script", attrs |-> EmptyMap, text |-> Str("(function(){/*guard*/})();")]

\* The rewrite rules on one element, in the order of the source.
RewriteElement(element, targetUrl) ==
  Bind(element, LAMBDA e0 :
  Bind(RewriteAnchor(e0, targetUrl), LAMBDA e1 :
  Bind(RewriteResources(e1, 1, targetUrl), LAMBDA e2 :
  Bind(RewriteLink(e2, targetUrl), LAMBDA e3 :
  Bind(RewriteForm(e3, targetUrl), LAMBDA e4 :
  Bind(RewriteSrcset(e4, targetUrl), LAMBDA e5 :
  Bind(RewriteStyleAttr(e5, targetUrl), LAMBDA e6 :
    RewriteStyleBlock(e6, targetUrl))))))))

\* The whole rewrite of the text/html branch: the rules on every element,
\* then the guard script appended to <head>.
RewriteHtml(doc, targetUrl) ==
  [head |-> Append([i \in 1..Len(doc.head) |-> RewriteElement(doc.head[i], targetUrl)],
                   clientScript),
   body |-> [i \in 1..Len(doc.body) |-> RewriteElement(doc.body[i], targetUrl)]]

(***************************************************************************)
(* Request handler: state                                                  *)
(***************************************************************************)

VARIABLES
  pc,         \* where the invocation stands: "idle", "fetching" (await fetch),
              \* "readingText" (await upstreamResponse.text()), "readingBody"
              \* (await upstreamResponse.arrayBuffer()), "done" (res.end called)
  clientUrl,  \* the URL the client encoded into the token (None: a raw token)
  req,        \* the inbound request: query, url, method, headers
  targetUrl,  \* the decoded target (None before it is decoded)
  fetchCall,  \* the arguments of the fetch the invocation made (None: no fetch)
  upstream,   \* the upstream response (None before fetch resolves)
  res         \* the outbound response: statusCode, headers, body, ended

vars == <<pc, clientUrl, req, targetUrl, fetchCall, upstream, res>>

\* res.setHeader(name, value): names are case-insensitive.
SetHeader(headers, name, value) == (ToLowerCase(name) :> value) @@ headers

\* new Headers(wire).entries(): the names lower-cased (the model's origins
\* send no name twice).
Entries(wire) ==
  [k \in {ToLowerCase(n) : n \in DOMAIN wire} |->
     wire[CHOOSE n \in DOMAIN wire : ToLowerCase(n) = k]]

\* headers.get(name): None when absent.
HeaderGet(wire, name) ==
  Bind(Entries(wire), LAMBDA entries :
    IF ToLowerCase(name) \in DOMAIN entries
      THEN Some(entries[ToLowerCase(name)]) ELSE None)

\* The response object before the handler touches it.
FreshResponse ==
  [statusCode |-> 200, headers |-> EmptyMap, body |-> [kind |-> "empty"],
   ended |-> FALSE]

NoRequest == [query |-> EmptyMap, url |-> <<>>, method |-> "GET", headers |-> EmptyMap]

\* res.end(text).
EndWithText(r, text) == [r EXCEPT !.body = [kind |-> "text", text |-> text], !.ended = TRUE]

\* res.end().
EndEmpty(r) == [r EXCEPT !.ended = TRUE]

(***************************************************************************)
(* Request handler: from the invocation to the fetch                       *)
(***************************************************************************)

\* (req.url.match(/[?&]u=([^&]+)/) || [])[1]: None when there is no match.
UrlParamU(url) ==
  Bind({k \in 1..(Len(url) - 3) :
          /\ url[k] \in {"?", "&"}
          /\ url[k + 1] = "u" /\ url[k + 2] = "="
          /\ url[k + 3] # "&"},
       LAMBDA starts :
    IF starts = {} THEN None
    ELSE Some(SubSeq(url, Min(starts) + 3, FindChar(url, {"&"}, Min(starts) + 3) - 1)))

\* const b64 = req.query.u || (req.url && ...[1]): None when falsy.
TokenOf(r) ==
  IF "u" \in DOMAIN r.query /\ r.query["u"] # <<>> THEN Some(r.query["u"])
  ELSE IF r.url # <<>> THEN UrlParamU(r.url)
  ELSE None

FORWARD_ALLOW ==
  <<Str("accept"), Str("accept-language"), Str("content-type"), Str("range"),
    Str("if-range"), Str("if-none-match"), Str("cache-control"),
    Str("x-requested-with")>>

\* req.headers[h] is truthy.
HasHeader(r, h) == h \in DOMAIN r.headers /\ r.headers[h] # <<>>

\* The allow-list loop: for (const h of FORWARD_ALLOW) ...
AllowedHeaders(r) ==
  [h \in {n \in {FORWARD_ALLOW[i] : i \in 1..Len(FORWARD_ALLOW)} : HasHeader(r, n)} |->
     r.headers[h]]

\* CookieHeaders without the opt-in: the cookie goes upstream whenever the
\* request carries one.
CookieHeadersAlways(r, headers) ==
  IF HasHeader(r, Str("cookie"))
    THEN (Str("cookie") :> r.headers[Str("cookie")]) @@ headers
    ELSE headers

\* Cookies go upstream only on the explicit opt-in.
CookieHeaders(r, headers) ==
  IF /\ "forwardCookies" \in DOMAIN r.query
     /\ r.query["forwardCookies"] = Str("1")
     /\ HasHeader(r, Str("cookie"))
    THEN (Str("cookie") :> r.headers[Str("cookie")]) @@ headers
    ELSE headers

\* if (req.headers.range) headers.range = req.headers.range.
RangeHeader(r, headers) ==
  IF HasHeader(r, Str("range"))
    THEN (Str("range") :> r.headers[Str("range")]) @@ headers
    ELSE headers

\* The header set sent upstream.
ForwardedHeaders(r) == RangeHeader(r, CookieHeaders(r, AllowedHeaders(r)))

\* The arguments of fetch(targetUrl, {method, headers, body, redirect}).
FetchArgs(r, target) ==
  [url |-> target, method |-> r.method, headers |-> ForwardedHeaders(r),
   body |-> r.method # "GET" /\ r.method # "HEAD", redirect |-> "manual"]

\* catch (err): 500 on whatever the response already holds.
Fail(r, message) ==
  EndWithText([r EXCEPT !.statusCode = 500], Str("Proxy error: ") \o message)

HIDE_HEADERS == {Str("set-cookie"), Str("server"), Str("x-powered-by")}

\* CopyHeaders comparing the names as they came, with "Server" and
\* "Referrer-Policy" spelled as in the documentation.
CopyHeadersCaseSensitive(r, wire) ==
  Bind(Entries(wire), LAMBDA entries :
    [r EXCEPT !.headers =
       (Str("Referrer-Policy") :> Str("no-referrer"))
       @@ [k \in {k \in DOMAIN entries :
                    k \notin {Str("set-cookie"), Str("Server"), Str("x-powered-by"),
                              Str("Referrer-Policy")}} |->
             entries[k]]
       @@ r.headers])

\* The copy loop over upstreamHeaders.entries(), then Referrer-Policy.
CopyHeaders(r, wire) ==
  Bind(Entries(wire), LAMBDA entries :
    [r EXCEPT !.headers =
       SetHeader([k \in {k \in DOMAIN entries :
                           /\ ToLowerCase(k) \notin HIDE_HEADERS
                           /\ ToLowerCase(k) # Str("referrer-policy")} |->
                    entries[k]] @@ r.headers,
                 Str("Referrer-Policy"), Str("no-referrer"))])

\* const ct = upstreamHeaders.get("content-type") || "".
ContentTypeOf(resp) ==
  Bind(HeaderGet(resp.headers, Str("content-type")), LAMBDA ct :
    IF Len(ct) = 1 THEN ct[1] ELSE <<>>)

IsRedirect(resp) == resp.status >= 300 /\ resp.status < 400

IsHtml(resp) == Includes(ContentTypeOf(resp), Str("text/html"))

\* RewriteLocation without the resolution against the target: the Location is
\* encoded as it came.
RewriteLocationUnresolved(r, loc, status, target) ==
  EndEmpty([r EXCEPT
    !.headers = SetHeader(r.headers, Str("Location"), ProxyPrefix \o b64Encode(loc)),
    !.statusCode = status])

\* The redirect branch with the Location loc, on the response r whose headers
\* are already copied: new URL(loc, targetUrl) may throw into the catch block.
RewriteLocation(r, loc, status, target) ==
  Bind(NewUrlAgainst(loc, target), LAMBDA u :
    IF u.ok
      THEN EndEmpty([r EXCEPT
             !.headers = SetHeader(r.headers, Str("Location"),
                                   ProxyPrefix \o b64Encode(Serialize(u))),
             !.statusCode = status])
      ELSE Fail(r, Str("Invalid URL")))

\* The redirect branch on the response r, whose headers are already copied.
RedirectResponse(r, resp, target) ==
  Bind(HeaderGet(resp.headers, Str("location")), LAMBDA loc :
    IF Len(loc) = 1 /\ loc[1] # <<>>
      THEN RewriteLocation(r, loc[1], resp.status, target)
      ELSE EndEmpty([r EXCEPT !.statusCode = resp.status]))

(***************************************************************************)
(* Inputs: the requests clients send and what the origins answer           *)
(***************************************************************************)

\* The most elements a document drawn for the rewriter holds.
MaxElems == 2

\* The targets: an application, a page, an API, and the address of the
\* proxied page on the proxy's own origin.
AppUrl == Str("https://example.com/app")
PageUrl == Str("https://example.com/a/b.html")
ApiUrl == Str("http://h.io:8080/api?x=1")
SelfUrl == Str("https://proxy.test/p/") \o b64Encode(PageUrl)

\* Absolute http(s) URLs a client may ask for.
HttpUrls ==
  {AppUrl, PageUrl, ApiUrl, SelfUrl,
   Str("HTTP://EXAMPLE.com/bc?x>y"),
   Str("https://example.com"),
   Str("http://a/caf") \o <<"U+00E9">> \o Str("?q=~~~"),
   Str("http://a/") \o <<"U+D83D", "U+DE00">> \o Str("#frag")}

\* Other strings a client may encode into a token.
NonHttpStrings ==
  {Str("ftp://x"), Str("file:///etc/passwd"), Str("example.com/x"),
   Str("/etc/passwd"), Str("javascript:alert(1)"), Str("http://["),
   Str("ws://example.com/socket")}

\* What a browser sends on a navigation (req.headers: names lower-cased).
Browser ==
  (Str("accept") :> Str("text/html")) @@ (Str("accept-language") :> Str("en"))
  @@ (Str("user-agent") :> Str("Mozilla/5.0"))
  @@ (Str("referer") :> Str("https://secret.example/inbox"))
  @@ (Str("origin") :> Str("https://secret.example"))
  @@ (Str("cookie") :> Str("sid=1"))

\* The header collections inbound requests carry: none, a navigation, a
\* media request, a script's request, and headers with empty values.
InboundHeaderSets ==
  {EmptyMap, Browser,
   (Str("range") :> Str("bytes=0-99")) @@ (Str("if-range") :> Str("etag1"))
     @@ (Str("cookie") :> Str("sid=2")) @@ (Str("referer") :> Str("https://secret.example/")),
   (Str("content-type") :> Str("application/json"))
     @@ (Str("x-requested-with") :> Str("XMLHttpRequest"))
     @@ (Str("cache-control") :> Str("no-cache"))
     @@ (Str("if-none-match") :> Str("etag2"))
     @@ (Str("authorization") :> Str("Bearer t"))
     @@ (Str("origin") :> Str("https://secret.example")),
   (Str("accept") :> <<>>) @@ (Str("cookie") :> <<>>)}

\* The values of the forwardCookies query flag (None: absent).
CookieFlags == {None, Some(Str("1")), Some(Str("0")), Some(Str("true"))}

Methods == {"GET", "HEAD", "POST"}

ProxyPath == Str("/api/proxy")

\* The request for a token, as the platform hands it to the handler.
RequestFor(token, flag, method, headers) ==
  [query |-> (IF Len(flag) = 1 THEN ("forwardCookies" :> flag[1]) ELSE EmptyMap)
             @@ ("u" :> token),
   url |-> ProxyPath \o Str("?u=") \o token
           \o (IF Len(flag) = 1 THEN Str("&forwardCookies=") \o flag[1] ELSE <<>>),
   method |-> method, headers |-> headers]

\* The pairs <<what the client encoded, the request>> the model draws:
\* requests for the API with every combination of headers, flag and method;
\* a navigation to every string a client may encode; requests whose token no
\* client encoded (bytes that are not UTF-8, characters outside the
\* alphabet), that carry none, or that carry it in req.url alone.
Requests ==
  {<<Some(ApiUrl), RequestFor(b64Encode(ApiUrl), f, m, h)>> :
     f \in CookieFlags, m \in Methods, h \in InboundHeaderSets}
  \cup
  {<<Some(u), RequestFor(b64Encode(u), None, "GET", Browser)>> :
     u \in HttpUrls \cup NonHttpStrings \cup {<<>>}}
  \cup
  {<<None, RequestFor(t, None, "GET", Browser)>> :
     t \in {Str("____"), Str("!!!!"), Str("_-_-w6k")}}
  \cup
  {<<None, [query |-> EmptyMap, url |-> ProxyPath, method |-> "GET",
            headers |-> Browser]>>,
   <<None, [query |-> EmptyMap, url |-> <<>>, method |-> "GET",
            headers |-> EmptyMap]>>,
   <<None, [query |-> ("forwardCookies" :> Str("1")),
            url |-> ProxyPath \o Str("?forwardCookies=1&u=")
                    \o b64Encode(ApiUrl) \o Str("&v=2"),
            method |-> "GET", headers |-> Browser]>>}

\* Header collections an origin may send (as on the wire), besides Location
\* and Content-Type.
UpstreamHeaderSets ==
  {EmptyMap,
   (Str("Set-Cookie") :> Str("sid=abc")) @@ (Str("Server") :> Str("nginx"))
     @@ (Str("X-Powered-By") :> Str("PHP/8")) @@ (Str("Referrer-Policy") :> Str("unsafe-url"))
     @@ (Str("Content-Range") :> Str("bytes 0-9/100")) @@ (Str("Accept-Ranges") :> Str("bytes")),
   (Str("set-cookie") :> Str("t=1")) @@ (Str("SERVER") :> Str("Apache"))
     @@ (Str("referrer-policy") :> Str("origin")) @@ (Str("Cache-Control") :> Str("no-store"))}

UpstreamStatuses == {200, 201, 299, 300, 302, 399, 400, 404}

\* Location values an origin may send (None: no such header).
UpstreamLocations ==
  {None, Some(<<>>), Some(Str("/login")), Some(Str("https://other.test/x?y=1#z")),
   Some(Str("http://["))}

UpstreamContentTypes ==
  {None, Some(Str("text/html; charset=iso-8859-1")), Some(Str("application/json"))}

HtmlType == (Str("Content-Type") :> Str("text/html"))

Element(tag, attrs, text) == [tag |-> tag, attrs |-> attrs, text |-> text]

\* The elements a document's head is drawn from.
HeadPalette ==
  {Element("link", ("rel" :> Str("stylesheet")) @@ ("href" :> Str("../c.css")), <<>>),
   Element("link", ("rel" :> Str("stylesheet")) @@ ("href" :> Str("data:text/css,a")), <<>>),
   Element("link", ("rel" :> Str("icon")) @@ ("href" :> Str("/favicon.ico")), <<>>),
   Element("link", ("rel" :> Str("stylesheet")), <<>>),
   Element("script", ("src" :> Str("//cdn.example.com/x.js")), <<>>),
   Element("style", EmptyMap, Str("body{background:url(bg.png)}")),
   Element("style", EmptyMap,
           Str("@import url('#x'); a{b:url(\"mailto:a@b.c\")} i{c:url(data:,x)}")),
   Element("meta", ("http-equiv" :> Str("refresh")) @@ ("content" :> Str("5;url=/next")),
           <<>>)}

\* The elements a document's body is drawn from.
BodyPalette ==
  {Element("a", ("href" :> r), <<>>) :
     r \in {Str("/login"), Str("https://other.test/x?y=1#z"), Str("#top"),
            Str("javascript:doThing()"), Str("data:image/png;base64,AAAA"),
            Str("mailto:a@b.c"), Str("http://["), <<>>}}
  \cup
  {Element("a", ("href" :> Str("../c.css")) @@ ("rel" :> Str("nofollow")), <<>>),
   Element("a", ("name" :> Str("top")), <<>>),
   Element("img", ("src" :> Str("a.jpg")) @@ ("srcset" :> Str("a.jpg 1x, b.jpg 2x")), <<>>),
   Element("img", ("srcset" :> Str("a.jpg,  b.jpg   2x  ,")), <<>>),
   Element("img", ("href" :> Str("/h")) @@ ("src" :> <<>>), <<>>),
   Element("iframe", ("src" :> Str("/frame")), <<>>),
   Element("video", ("src" :> Str("v.mp4")) @@ ("href" :> Str("/ignored")), <<>>),
   Element("audio", ("src" :> Str("#t=10")), <<>>),
   Element("source", ("srcset" :> Str("data:image/gif;base64,AA== 1x")), <<>>),
   Element("embed", ("src" :> Str("mailto:a@b.c")), <<>>),
   Element("form", EmptyMap, <<>>),
   Element("form", ("action" :> Str("/submit?x=1")), <<>>),
   Element("form", ("action" :> Str("#")), <<>>),
   Element("div", ("style" :> Str("background:url(bg.png)")), <<>>),
   Element("div", ("style" :> Str("a:url(\"#f\"), url('data:,x') ; b:url('y")), <<>>)}

\* The documents of at most n elements.
DocsUpTo(n) ==
  UNION {{[head |-> h, body |-> b] :
            h \in [1..ik[1] -> HeadPalette], b \in [1..(ik[2] - ik[1]) -> BodyPalette]} :
         ik \in {ik \in (0..n) \X (0..n) : ik[1] <= ik[2]}}

Html(doc) == [kind |-> "html", doc |-> doc]

Bytes(name) == [kind |-> "bytes", bytes |-> name]

\* What the origin of a target may answer: status, headers (as on the wire),
\* body.  The application answers with every combination of status, Location,
\* content type and other headers; the page with every document; the proxy's
\* own origin with the proxy's rewrite of a page; any other origin with an
\* image, a part of a file, or an error page.
Responses(target) ==
  IF target = AppUrl
    THEN {[status |-> st,
           headers |-> (IF Len(loc) = 1 THEN (Str("Location") :> loc[1]) ELSE EmptyMap)
                       @@ (IF Len(ct) = 1 THEN (Str("Content-Type") :> ct[1]) ELSE EmptyMap)
                       @@ hs,
           body |-> IF Len(ct) = 1 /\ Includes(ct[1], Str("text/html"))
                      THEN Html([head |-> <<>>, body |-> <<>>]) ELSE Bytes("payload")] :
            st \in UpstreamStatuses, loc \in UpstreamLocations,
            ct \in UpstreamContentTypes, hs \in UpstreamHeaderSets}
  ELSE IF target = PageUrl
    THEN {[status |-> 200, headers |-> HtmlType, body |-> Html(d)] : d \in DocsUpTo(MaxElems)}
  ELSE IF target = SelfUrl
    THEN {[status |-> 200, headers |-> HtmlType, body |-> Html(RewriteHtml(d, PageUrl))] :
            d \in DocsUpTo(1)}
  ELSE {[status |-> 200, headers |-> (Str("Content-Type") :> Str("image/png")),
         body |-> Bytes("png")],
        [status |-> 206, headers |-> (Str("Content-Range") :> Str("bytes 0-99/1000")),
         body |-> Bytes("part")],
        [status |-> 404, headers |-> HtmlType @@ (Str("Server") :> Str("nginx")),
         body |-> Html([head |-> <<>>, body |-> <<>>])]}

(***************************************************************************)
(* Request handler: the actions                                            *)
(***************************************************************************)

Init ==
  /\ pc = "idle"
  /\ clientUrl = None
  /\ req = NoRequest
  /\ targetUrl = None
  /\ fetchCall = None
  /\ upstream = None
  /\ res = FreshResponse

\* The handler is invoked without a token: 400.
RejectMissing ==
  /\ pc = "idle"
  /\ \E cr \in Requests :
       /\ TokenOf(cr[2]) = None
       /\ clientUrl' = cr[1]
       /\ req' = cr[2]
       /\ res' = EndWithText([FreshResponse EXCEPT !.statusCode = 400],
                             Str("Missing ") \o <<"U+0060", "u", "U+0060">>
                             \o Str(" parameter (base64url-encoded target URL)."))
  /\ pc' = "done"
  /\ UNCHANGED <<targetUrl, fetchCall, upstream>>

\* The token decodes to something that is no http(s) URL: 400.
RejectInvalid ==
  /\ pc = "idle"
  /\ \E cr \in Requests :
       /\ TokenOf(cr[2]) # None
       /\ ~isHttpUrl(b64Decode(TokenOf(cr[2])[1]))
       /\ clientUrl' = cr[1]
       /\ req' = cr[2]
       /\ targetUrl' = Some(b64Decode(TokenOf(cr[2])[1]))
       /\ res' = EndWithText([FreshResponse EXCEPT !.statusCode = 400],
                             Str("Invalid target URL."))
  /\ pc' = "done"
  /\ UNCHANGED <<fetchCall, upstream>>

\* The token decodes to an http(s) URL: the handler builds the forwarded
\* headers and awaits the fetch.
StartFetch ==
  /\ pc = "idle"
  /\ \E cr \in Requests :
       /\ TokenOf(cr[2]) # None
       /\ isHttpUrl(b64Decode(TokenOf(cr[2])[1]))
       /\ clientUrl' = cr[1]
       /\ req' = cr[2]
       /\ targetUrl' = Some(b64Decode(TokenOf(cr[2])[1]))
       /\ fetchCall' = Some(FetchArgs(cr[2], b64Decode(TokenOf(cr[2])[1])))
  /\ res' = FreshResponse
  /\ pc' = "fetching"
  /\ UNCHANGED upstream

\* The fetch rejects (DNS, TLS, connection): the catch block answers 500.
FetchRejects ==
  /\ pc = "fetching"
  /\ res' = Fail(res, Str("fetch failed"))
  /\ pc' = "done"
  /\ UNCHANGED <<clientUrl, req, targetUrl, fetchCall, upstream>>

\* The fetch resolves with a 3xx: headers copied, Location rewritten, no body.
FetchResolvesRedirect ==
  /\ pc = "fetching"
  /\ \E resp \in Responses(targetUrl[1]) :
       /\ IsRedirect(resp)
       /\ upstream' = Some(resp)
       /\ res' = RedirectResponse(CopyHeaders(res, resp.headers), resp, targetUrl[1])
  /\ pc' = "done"
  /\ UNCHANGED <<clientUrl, req, targetUrl, fetchCall>>

\* The fetch resolves with text/html: headers copied, the handler awaits the text.
FetchResolvesHtml ==
  /\ pc = "fetching"
  /\ \E resp \in Responses(targetUrl[1]) :
       /\ ~IsRedirect(resp)
       /\ IsHtml(resp)
       /\ upstream' = Some(resp)
       /\ res' = CopyHeaders(res, resp.headers)
  /\ pc' = "readingText"
  /\ UNCHANGED <<clientUrl, req, targetUrl, fetchCall>>

\* The fetch resolves with anything else: headers copied, status set, the
\* handler forwards the body.
FetchResolvesOther ==
  /\ pc = "fetching"
  /\ \E resp \in Responses(targetUrl[1]) :
       /\ ~IsRedirect(resp)
       /\ ~IsHtml(resp)
       /\ upstream' = Some(resp)
       /\ res' = [CopyHeaders(res, resp.headers) EXCEPT !.statusCode = resp.status]
  /\ pc' = "readingBody"
  /\ UNCHANGED <<clientUrl, req, targetUrl, fetchCall>>

\* The text arrives: the document is rewritten and sent as text/html.
TextResolves ==
  /\ pc = "readingText"
  /\ res' = [res EXCEPT
       !.headers = SetHeader(res.headers, Str("Content-Type"),
                             Str("text/html; charset=utf-8")),
       !.statusCode = upstream[1].status,
       !.body = Html(RewriteHtml(upstream[1].body.doc, targetUrl[1])),
       !.ended = TRUE]
  /\ pc' = "done"
  /\ UNCHANGED <<clientUrl, req, targetUrl, fetchCall, upstream>>

\* Reading the upstream body fails: the catch block answers 500.
ReadRejects ==
  /\ pc \in {"readingText", "readingBody"}
  /\ res' = Fail(res, Str("terminated"))
  /\ pc' = "done"
  /\ UNCHANGED <<clientUrl, req, targetUrl, fetchCall, upstream>>

\* The body arrives (piped, or read as a buffer): it is sent as it is.
BodyResolves ==
  /\ pc = "readingBody"
  /\ res' = [res EXCEPT !.body = upstream[1].body, !.ended = TRUE]
  /\ pc' = "done"
  /\ UNCHANGED <<clientUrl, req, targetUrl, fetchCall, upstream>>

\* The invocation is over; the next one starts from nothing.
Finish ==
  /\ pc = "done"
  /\ pc' = "idle"
  /\ clientUrl' = None
  /\ req' = NoRequest
  /\ targetUrl' = None
  /\ fetchCall' = None
  /\ upstream' = None
  /\ res' = FreshResponse

Next ==
  \/ RejectMissing
  \/ RejectInvalid
  \/ StartFetch
  \/ FetchRejects
  \/ FetchResolvesRedirect
  \/ FetchResolvesHtml
  \/ FetchResolvesOther
  \/ TextResolves
  \/ ReadRejects
  \/ BodyResolves
  \/ Finish

Spec == Init /\ [][Next]_vars

(***************************************************************************)
(* Properties                                                              *)
(***************************************************************************)

\* The URL record is that of an absolute http or https URL.
HttpRecord(u) == u.ok /\ u.scheme \in {Str("http"), Str("https")}

\* The token of the request in hand is missing, or decodes to a string that
\* is no absolute http(s) URL.
BadToken ==
  \/ TokenOf(req) = None
  \/ ~HttpRecord(NewUrl(b64Decode(TokenOf(req)[1])))

\* C1: a request whose token u is missing, or decodes to a string that is not
\* an absolute http or https URL, is answered with status 400 and a plain-text
\* body, and no upstream fetch is made for it.
C1_BadTargetRejected ==
  (pc # "idle" /\ BadToken) =>
    /\ pc = "done"
    /\ res.ended
    /\ res.statusCode = 400
    /\ res.body.kind = "text"
    /\ fetchCall = None
    /\ upstream = None

\* An ftp target was asked for and has been answered.
C1_Witness ==
  /\ pc = "done"
  /\ clientUrl = Some(Str("ftp://x"))
  /\ targetUrl = Some(Str("ftp://x"))
  /\ res.statusCode = 400
  /\ fetchCall = None

\* C2: for every absolute http(s) URL u a client encodes, decoding the token
\* gives back u exactly, and the handler accepts it as its target: it goes on
\* to fetch u instead of rejecting the request.
C2_RoundTripAccepted ==
  (pc # "idle" /\ clientUrl # None /\ HttpRecord(NewUrl(clientUrl[1]))) =>
    /\ targetUrl = clientUrl
    /\ fetchCall # None
    /\ fetchCall[1].url = clientUrl[1]

\* A URL with a character outside the basic plane went through the codec, in
\* a token that uses the URL-safe alphabet, and is being fetched.
C2_Witness ==
  /\ pc = "fetching"
  /\ clientUrl = Some(Str("http://a/") \o <<"U+D83D", "U+DE00">> \o Str("#frag"))
  /\ targetUrl = clientUrl
  /\ fetchCall # None
  /\ req.query["u"] = Str("aHR0cDovL2Ev8J-YgCNmcmFn")

\* The Location header of the upstream response (None: it has none).
UpstreamLocation == HeaderGet(upstream[1].headers, Str("location"))

\* The outbound response is the redirect to the proxy-addressed form of loc:
\* the upstream status, no body, Location /p/<encode(resolve(loc, target))>,
\* and neither the HTML nor the pass-through branch entered.
RedirectRewritten(loc) ==
  /\ pc = "done"
  /\ res.ended
  /\ res.statusCode = upstream[1].status
  /\ res.body.kind = "empty"
  /\ NewUrlAgainst(loc, targetUrl[1]).ok
  /\ Str("location") \in DOMAIN res.headers
  /\ res.headers[Str("location")] =
       Str("/p/") \o b64Encode(Serialize(NewUrlAgainst(loc, targetUrl[1])))

\* C3 as stated: whenever the upstream response has a status in 300..399 and
\* a Location header L, the outbound response has the same status, an empty
\* body and the Location /p/<encode(resolve(L, target))>.
C3_AnyLocationRewritten ==
  (upstream # None /\ IsRedirect(upstream[1]) /\ UpstreamLocation # None) =>
    RedirectRewritten(UpstreamLocation[1])

\* C3 amended: whenever the upstream response has a status in 300..399 and a
\* Location header L that is not empty and that resolves against the target,
\* the outbound response has the same status, an empty body and the Location
\* /p/<encode(resolve(L, target))>, and the HTML and pass-through branches
\* are not entered.
C3_ResolvableLocationRewritten ==
  (/\ upstream # None
   /\ IsRedirect(upstream[1])
   /\ UpstreamLocation # None
   /\ UpstreamLocation[1] # <<>>
   /\ NewUrlAgainst(UpstreamLocation[1], targetUrl[1]).ok) =>
    RedirectRewritten(UpstreamLocation[1])

\* The application answered 302 with Location /login, and the client was
\* sent to the token of https://example.com/login.
C3_Witness ==
  /\ pc = "done"
  /\ targetUrl = Some(AppUrl)
  /\ upstream # None
  /\ upstream[1].status = 302
  /\ UpstreamLocation = Some(Str("/login"))
  /\ res.statusCode = 302
  /\ res.headers[Str("location")] = Str("/p/aHR0cHM6Ly9leGFtcGxlLmNvbS9sb2dpbg")

\* C4: every response produced from an upstream response, on the redirect,
\* the HTML and the pass-through branch, carries none of set-cookie, server
\* and x-powered-by (whatever their case), and carries Referrer-Policy with
\* the value no-referrer whatever the upstream sent.
C4_ResponseHeadersFiltered ==
  upstream # None =>
    /\ \A k \in DOMAIN res.headers :
         ToLowerCase(k) \notin {Str("set-cookie"), Str("server"), Str("x-powered-by")}
    /\ Str("referrer-policy") \in DOMAIN res.headers
    /\ res.headers[Str("referrer-policy")] = Str("no-referrer")

\* An origin that sent Server, Set-Cookie and a Referrer-Policy of its own
\* has been answered for on the HTML branch.
C4_Witness ==
  /\ pc = "done"
  /\ upstream # None
  /\ Str("SERVER") \in DOMAIN upstream[1].headers
  /\ Str("set-cookie") \in DOMAIN upstream[1].headers
  /\ Str("referrer-policy") \in DOMAIN upstream[1].headers
  /\ res.body.kind = "html"
  /\ Str("cache-control") \in DOMAIN res.headers

\* C5: the headers sent upstream are inbound headers of the allow-list, each
\* with its inbound value, and the cookie header only when the request has the
\* query flag forwardCookies=1 and carries a cookie; Referer and Origin are
\* never sent, whatever the inbound headers are.
C5_ForwardedHeadersAllowed ==
  fetchCall # None =>
    /\ \A h \in DOMAIN fetchCall[1].headers :
         /\ h \in {Str("accept"), Str("accept-language"), Str("content-type"),
                   Str("range"), Str("if-range"), Str("if-none-match"),
                   Str("cache-control"), Str("x-requested-with"), Str("cookie")}
         /\ h \in DOMAIN req.headers
         /\ fetchCall[1].headers[h] = req.headers[h]
    /\ Str("cookie") \in DOMAIN fetchCall[1].headers =>
         /\ "forwardCookies" \in DOMAIN req.query
         /\ req.query["forwardCookies"] = Str("1")
         /\ Str("cookie") \in DOMAIN req.headers
    /\ Str("referer") \notin DOMAIN fetchCall[1].headers
    /\ Str("origin") \notin DOMAIN fetchCall[1].headers

\* A navigation with Referer, Origin and a cookie opted in to cookies: the
\* cookie and the allow-listed headers went upstream.
C5_Witness ==
  /\ pc = "fetching"
  /\ Str("referer") \in DOMAIN req.headers
  /\ Str("origin") \in DOMAIN req.headers
  /\ Str("user-agent") \in DOMAIN req.headers
  /\ fetchCall # None
  /\ DOMAIN fetchCall[1].headers = {Str("accept"), Str("accept-language"), Str("cookie")}

\* The HTML branch has answered: upstream[1].body.doc went in, res.body.doc
\* came out.
HtmlRewritten ==
  /\ pc = "done"
  /\ upstream # None
  /\ upstream[1].body.kind = "html"
  /\ res.body.kind = "html"

\* The elements of the input with the elements they became.
ElementPairs ==
  LET in == upstream[1].body.doc
      out == res.body.doc
  IN  {<<in.head[i], out.head[i]>> : i \in 1..Len(in.head)}
      \cup {<<in.body[i], out.body[i]>> : i \in 1..Len(in.body)}

\* The attribute that holds the reference of an element, by its tag.
RefAttrsOf(el) ==
  IF el.tag \in {"a", "link"} THEN {"href"} \cap DOMAIN el.attrs
  ELSE IF el.tag \in {"img", "script", "iframe", "video", "audio", "source", "embed"}
    THEN IF HasAttr(el, "src") THEN {"src"} ELSE {"href"} \cap DOMAIN el.attrs
  ELSE IF el.tag = "form" THEN {"action"} \cap DOMAIN el.attrs
  ELSE {}

\* The URLs of the comma-separated entries of a srcset.
SrcsetUrls(text) ==
  LET raw == Split(text, Str(","))
  IN  [k \in 1..Len(raw) |-> SplitWords2(Trim(raw[k]))[1]]

\* The URLs of the url(...) of a style sheet, left to right.
RECURSIVE CssUrls(_)
CssUrls(css) ==
  LET m == CssUrlMatch(css)
  IN  IF m = <<>> THEN <<>> ELSE <<m[3]>> \o CssUrls(From(css, m[4] + 1))

\* The k-th of the references ins with the k-th of outs.
SeqPairs(ins, outs) ==
  {<<ins[k], IF k <= Len(outs) THEN outs[k] ELSE <<>>>> : k \in 1..Len(ins)}

\* The references of an element of the input, each with what the output holds
\* in its place.
RefsOf(p) ==
  {<<p[1].attrs[a], AttrOr(p[2], a)>> : a \in RefAttrsOf(p[1])}
  \cup (IF "srcset" \in DOMAIN p[1].attrs
          THEN SeqPairs(SrcsetUrls(p[1].attrs["srcset"]), SrcsetUrls(AttrOr(p[2], "srcset")))
          ELSE {})
  \cup (IF "style" \in DOMAIN p[1].attrs
          THEN SeqPairs(CssUrls(p[1].attrs["style"]), CssUrls(AttrOr(p[2], "style")))
          ELSE {})
  \cup (IF p[1].tag = "style" THEN SeqPairs(CssUrls(p[1].text), CssUrls(p[2].text)) ELSE {})

\* Every reference of the input document with what the output holds for it.
AllRefs == UNION {RefsOf(p) : p \in ElementPairs}

\* A reference with an inert scheme, or an in-page fragment.
Inert(x) ==
  \/ StartsWith(x, Str("javascript:"))
  \/ StartsWith(x, Str("data:"))
  \/ StartsWith(x, Str("mailto:"))
  \/ StartsWith(x, Str("#"))

\* A reference the rewriter is to replace: not empty, not inert, and one
\* that resolves against t.
Rewritable(x, t) == x # <<>> /\ ~Inert(x) /\ NewUrlAgainst(x, t).ok

\* out is /p/<token> and the token decodes to x resolved against t.
EncodedOnce(out, x, t) ==
  /\ StartsWith(out, Str("/p/"))
  /\ b64Decode(From(out, 4)) = Serialize(NewUrlAgainst(x, t))

\* C6: after the rewrite of a document fetched from target T, every rewritable
\* reference X of the input (anchor href, src or href of a resource element,
\* href of every link element, form action, srcset entry, url() of a style
\* attribute or style block) stands in the output as /p/<token> with
\* decode(token) = resolve(X, T): it is encoded exactly once, also on an
\* element that more than one rule of the pass matches.
C6_EveryReferenceEncodedOnce ==
  HtmlRewritten =>
    \A r \in AllRefs :
      Rewritable(r[1], targetUrl[1]) => EncodedOnce(r[2], r[1], targetUrl[1])

\* C7: the rewrite of a document that is itself the output of a rewrite,
\* fetched from the proxy's own origin, is that document again: no /p/<token>
\* is encoded again, no rel grows, no second guard script is added.
C7_RewriteIdempotent ==
  (HtmlRewritten /\ targetUrl = Some(SelfUrl)) =>
    res.body.doc = upstream[1].body.doc

\* C8: for every kind of reference the rewriter handles, a reference with an
\* inert scheme (javascript:, data:, mailto:) or an in-page fragment (#...)
\* stands in the output with its value unchanged.
C8_InertReferencesUnchanged ==
  HtmlRewritten => \A r \in AllRefs : Inert(r[1]) => r[2] = r[1]

\* The meta refresh elements of the input whose content is "N;url=X", each
\* with the element it became.
MetaRefreshPairs ==
  {p \in ElementPairs :
     /\ p[1].tag = "meta"
     /\ AttrOr(p[1], "http-equiv") = Str("refresh")
     /\ Len(Split(AttrOr(p[1], "content"), Str(";url="))) = 2}

\* C9: in every HTML response the proxy handles, each meta refresh element
\* with content "N;url=X" keeps the delay N, and its url part becomes the
\* proxy-addressed encoding of resolve(X, target).
C9_MetaRefreshRewritten ==
  HtmlRewritten =>
    \A p \in MetaRefreshPairs :
      LET in == Split(p[1].attrs["content"], Str(";url="))
          out == Split(AttrOr(p[2], "content"), Str(";url="))
      IN  NewUrlAgainst(in[2], targetUrl[1]).ok =>
            /\ Len(out) = 2
            /\ out[1] = in[1]
            /\ EncodedOnce(out[2], in[2], targetUrl[1])

\* C10: in no response written to the client, whatever the path through the
\* handler, the 500 path of a redirect that fails to resolve included, is the
\* Location header the raw upstream value: a Location header that is present
\* is of the form /p/<token>.
C10_LocationNeverRaw ==
  (res.ended /\ Str("location") \in DOMAIN res.headers) =>
    StartsWith(res.headers[Str("location")], Str("/p/"))

====
